---- MODULE Spec2Model ----
(***************************************************************************)
(* A model of RecurrenceRelationSolver (src/ccp.py): the session object,   *)
(* its parser (three regular expressions), the growth classifier, the      *)
(* solver's dispatch and the formatter.                                    *)
(*                                                                         *)
(* Python strings are TLA+ strings; TLC evaluates Len, \o and SubSeq on    *)
(* them, so every regular expression is modelled character by character.   *)
(***************************************************************************)
EXTENDS Integers, Sequences, FiniteSets, TLC

VARIABLES recurrence, base_cases, solution, solution_method, execution_time,
          steps, asymptotic_notation, history

vars == <<recurrence, base_cases, solution, solution_method, execution_time,
          steps, asymptotic_notation, history>>

\* Python's None, and a Python str as a value that may be None instead: both are
\* records, which TLC compares with each other and with the recurrence records.
None == [none |-> TRUE]

Str(s) == [str |-> s]

(***************************************************************************)
(* Characters and strings                                                  *)
(***************************************************************************)

\* s[i] of Python (1-based here); "" when i is outside the string.
At(s, i) == IF i >= 1 /\ i <= Len(s) THEN SubSeq(s, i, i) ELSE ""

\* s[i:].startswith(lit)
StartsWithAt(s, i, lit) ==
    /\ i >= 1
    /\ i + Len(lit) - 1 <= Len(s)
    /\ SubSeq(s, i, i + Len(lit) - 1) = lit

\* Python's `lit in s`
Contains(s, lit) == \E i \in 1..(Len(s) - Len(lit) + 1) : StartsWithAt(s, i, lit)

\* the characters \d matches (ASCII digits; the inputs hold no other digits)
Digits == {"0", "1", "2", "3", "4", "5", "6", "7", "8", "9"}

\* the characters \s matches among those the inputs use
Spaces == {" ", "\t", "\n"}

\* value of one digit character
DigitVal(c) ==
    CASE c = "0" -> 0 [] c = "1" -> 1 [] c = "2" -> 2 [] c = "3" -> 3
      [] c = "4" -> 4 [] c = "5" -> 5 [] c = "6" -> 6 [] c = "7" -> 7
      [] c = "8" -> 8 [] c = "9" -> 9

\* the digit character of a value in 0..9
DigitChar(d) == SubSeq("0123456789", d + 1, d + 1)

\* greedy \s*: the first index >= i that holds no whitespace
RECURSIVE SkipSpaces(_, _)
SkipSpaces(s, i) == IF At(s, i) \in Spaces THEN SkipSpaces(s, i + 1) ELSE i

\* greedy \d*: the first index >= i that holds no digit
RECURSIVE SkipDigits(_, _)
SkipDigits(s, i) == IF At(s, i) \in Digits THEN SkipDigits(s, i + 1) ELSE i

\* int(s) for a string of digits
RECURSIVE ParseInt(_)
ParseInt(s) ==
    IF Len(s) = 0 THEN 0
    ELSE 10 * ParseInt(SubSeq(s, 1, Len(s) - 1)) + DigitVal(At(s, Len(s)))

\* str(k) for an integer k >= 0
RECURSIVE IntStr(_)
IntStr(k) == IF k < 10 THEN DigitChar(k) ELSE IntStr(k \div 10) \o DigitChar(k % 10)

\* index of the last character that is no whitespace (0 if there is none)
RECURSIVE LastNonSpace(_, _)
LastNonSpace(s, i) ==
    IF i = 0 THEN 0 ELSE IF At(s, i) \in Spaces THEN LastNonSpace(s, i - 1) ELSE i

\* str.strip()
Strip(s) ==
    LET Between(i, j) == IF i > j THEN "" ELSE SubSeq(s, i, j)
    IN  Between(SkipSpaces(s, 1), LastNonSpace(s, Len(s)))

Uppers == "ABCDEFGHIJKLMNOPQRSTUVWXYZΘ"
Lowers == "abcdefghijklmnopqrstuvwxyzθ"

\* str.lower() of one character
LowerChar(c) ==
    IF \E k \in 1..Len(Uppers) : At(Uppers, k) = c
    THEN At(Lowers, CHOOSE k \in 1..Len(Uppers) : At(Uppers, k) = c)
    ELSE c

\* str.lower()
RECURSIVE Lower(_)
Lower(s) == IF Len(s) = 0 THEN "" ELSE LowerChar(At(s, 1)) \o Lower(Tail(s))

\* str.replace(old, new): left to right, occurrences do not overlap
RECURSIVE Replace(_, _, _)
Replace(s, old, new) ==
    IF Len(s) = 0 THEN ""
    ELSE IF StartsWithAt(s, 1, old)
         THEN new \o Replace(SubSeq(s, Len(old) + 1, Len(s)), old, new)
         ELSE At(s, 1) \o Replace(Tail(s), old, new)

\* the end of the run `.` matches from i: the index of the next "\n", or Len(s)+1
RECURSIVE LineEnd(_, _)
LineEnd(s, i) ==
    IF i > Len(s) \/ At(s, i) = "\n" THEN i ELSE LineEnd(s, i + 1)

(***************************************************************************)
(* The regular expressions of parse_recurrence                             *)
(***************************************************************************)

NoMatch == [matched |-> FALSE]

\* `T\(n\)\s*=\s*` at the start of s (re.match): the index after it, 0 if it
\* does not match there. "=" is no whitespace, so \s* never gives characters back.
HeadEnd(s) ==
    LET After(e) == IF StartsWithAt(s, 1, "T(n)") /\ At(s, e) = "="
                    THEN SkipSpaces(s, e + 1)
                    ELSE 0
    IN  After(SkipSpaces(s, 5))

\* `(\d+)?T\(n\s*/\s*(\d+)\)` at i. Every greedy run is followed by a character
\* outside the run's class, so the first attempt is the only one that can match.
\* k: after the coefficient; s1: at "/"; s2: at the divisor; e: after the divisor.
TTermAt(s, i) ==
    LET Term(k, s1, s2, e) ==
            IF i >= 1 /\ StartsWithAt(s, k, "T(n") /\ At(s, s1) = "/" /\ e > s2
               /\ At(s, e) = ")"
            THEN [ok |-> TRUE, g1 |-> SubSeq(s, i, k - 1), g2 |-> SubSeq(s, s2, e - 1),
                  end |-> e + 1]
            ELSE [ok |-> FALSE]
        Divisor(k, s1, s2) == Term(k, s1, s2, SkipDigits(s, s2))
        Slash(k, s1) == Divisor(k, s1, SkipSpaces(s, s1 + 1))
        Coefficient(k) == Slash(k, SkipSpaces(s, k + 3))
    IN  Coefficient(SkipDigits(s, i))

\* one round of `(?:(?:\d+)?T\(n\s*/\s*\d+\)\s*\+?\s*)` at i: the index after it, 0
\* if it does not match
ComplexTermEnd(s, i) ==
    LET Plus(p) == SkipSpaces(s, IF At(s, p) = "+" THEN p + 1 ELSE p)
        Round(t) == IF t.ok THEN Plus(SkipSpaces(s, t.end)) ELSE 0
    IN  Round(TTermAt(s, i))

\* the greedy `(...)+` of the complex pattern from i: the index after the last
\* round. `(.*)` after it matches anything, so no round is ever given back.
RECURSIVE TermsEnd(_, _)
TermsEnd(s, i) ==
    LET Again(e) == IF e = 0 THEN i ELSE TermsEnd(s, e)
    IN  Again(ComplexTermEnd(s, i))

\* re.match(complex_divide_conquer_pattern, s)
\* h: the start of the first round; e: the index after the last one.
MatchComplex(s) ==
    LET Groups(h, e) ==
            IF h > 0 /\ e > h
            THEN [matched |-> TRUE, g1 |-> SubSeq(s, h, e - 1),
                  g2 |-> SubSeq(s, e, LineEnd(s, e) - 1)]
            ELSE NoMatch
        Rounds(h) == Groups(h, TermsEnd(s, h))
    IN  Rounds(HeadEnd(s))

\* where `(.+)` starts after `\s*` ran greedily from lo to hi: `\s*` gives
\* characters back until `.` (anything but "\n") has one to match; 0 if none
RECURSIVE DotPlusStart(_, _, _)
DotPlusStart(s, lo, hi) ==
    IF hi < lo THEN 0
    ELSE IF hi <= Len(s) /\ At(s, hi) # "\n" THEN hi
    ELSE DotPlusStart(s, lo, hi - 1)

\* `\s*\+\s*(.+)` at i: the text of the group
PlusTail(s, i) ==
    LET Group(p, q) ==
            IF i >= 1 /\ At(s, p) = "+" /\ q > 0
            THEN [ok |-> TRUE, g |-> SubSeq(s, q, LineEnd(s, q) - 1)]
            ELSE [ok |-> FALSE]
        Plus(p) == Group(p, DotPlusStart(s, p + 1, SkipSpaces(s, p + 1)))
    IN  Plus(SkipSpaces(s, i))

\* re.match(divide_conquer_pattern, s)
MatchSimple(s) ==
    LET Groups(t, r) ==
            IF r.ok
            THEN [matched |-> TRUE, g1 |-> t.g1, g2 |-> t.g2, g3 |-> r.g]
            ELSE NoMatch
        Term(t) == IF t.ok THEN Groups(t, PlusTail(s, t.end)) ELSE NoMatch
        Start(h) == IF h > 0 THEN Term(TTermAt(s, h)) ELSE NoMatch
    IN  Start(HeadEnd(s))

\* re.match(decrease_conquer_pattern, s)
\* h: at "T(n"; s1: at "-"; s2: at the decrement; e: after the decrement.
MatchDecrease(s) ==
    LET Groups(s2, e, r) ==
            IF r.ok
            THEN [matched |-> TRUE, g1 |-> SubSeq(s, s2, e - 1), g2 |-> r.g]
            ELSE NoMatch
        Term(h, s1, s2, e) ==
            IF h > 0 /\ StartsWithAt(s, h, "T(n") /\ At(s, s1) = "-" /\ e > s2
               /\ At(s, e) = ")"
            THEN Groups(s2, e, PlusTail(s, e + 1))
            ELSE NoMatch
        Decrement(h, s1, s2) == Term(h, s1, s2, SkipDigits(s, s2))
        Minus(h, s1) == Decrement(h, s1, SkipSpaces(s, s1 + 1))
        Start(h) == Minus(h, SkipSpaces(s, h + 3))
    IN  Start(HeadEnd(s))

\* int(g if g else 1): an omitted coefficient is 1
CoefficientOf(g) == IF g # "" THEN ParseInt(g) ELSE 1

\* the loop over re.finditer(t_term_pattern, t_terms): one subproblem per match,
\* left to right, the scan resuming after each match
RECURSIVE FindSubproblems(_, _)
FindSubproblems(t, i) ==
    LET Found(m) ==
            IF m.ok
            THEN <<[a |-> CoefficientOf(m.g1), b |-> ParseInt(m.g2)]>>
                 \o FindSubproblems(t, m.end)
            ELSE FindSubproblems(t, i + 1)
    IN  IF i > Len(t) THEN <<>> ELSE Found(TTermAt(t, i))

\* the record parse_recurrence builds when the complex pattern matches
ComplexRecord(m) ==
    LET Record(f_n) ==
            [type |-> "complex_divide_and_conquer",
             subproblems |-> FindSubproblems(Strip(m.g1), 1),
             fn |-> IF f_n = "" THEN "0" ELSE f_n]
    IN  Record(Strip(m.g2))

\* the record parse_recurrence builds when the simple pattern matches
SimpleRecord(m) ==
    [type |-> "divide_and_conquer", a |-> CoefficientOf(m.g1), b |-> ParseInt(m.g2),
     fn |-> Strip(m.g3)]

\* the record parse_recurrence builds when the decrease pattern matches
DecreaseRecord(m) ==
    [type |-> "decrease_and_conquer", d |-> ParseInt(m.g1), fn |-> Strip(m.g2)]

\* what parse_recurrence returns and the step it appends after the "Parsing"
\* step, for each kind of record and for a failure
ComplexOutcome(r) ==
    [rec |-> r,
     step |-> "Identified complex divide and conquer recurrence with "
              \o IntStr(Len(r.subproblems)) \o " subproblems, f(n)=" \o r.fn]

SimpleOutcome(r) ==
    [rec |-> r,
     step |-> "Identified divide and conquer recurrence with a=" \o IntStr(r.a)
              \o ", b=" \o IntStr(r.b) \o ", f(n)=" \o r.fn]

DecreaseOutcome(r) ==
    [rec |-> r,
     step |-> "Identified decrease and conquer recurrence with d=" \o IntStr(r.d)
              \o ", f(n)=" \o r.fn]

FailedOutcome == [rec |-> None, step |-> "Failed to parse the recurrence relation."]

\* a parser that lacks the decrease-and-conquer pattern
FirstMatchWithoutDecrease(c, s, d) ==
    IF c.matched THEN ComplexOutcome(ComplexRecord(c))
    ELSE IF s.matched THEN SimpleOutcome(SimpleRecord(s))
    ELSE FailedOutcome

\* a parser that tries the simple pattern before the complex one
FirstMatchSimpleFirst(c, s, d) ==
    IF s.matched THEN SimpleOutcome(SimpleRecord(s))
    ELSE IF c.matched THEN ComplexOutcome(ComplexRecord(c))
    ELSE IF d.matched THEN DecreaseOutcome(DecreaseRecord(d))
    ELSE FailedOutcome

\* the order of the patterns in parse_recurrence: complex, simple, decrease
FirstMatch(c, s, d) ==
    IF c.matched THEN ComplexOutcome(ComplexRecord(c))
    ELSE IF s.matched THEN SimpleOutcome(SimpleRecord(s))
    ELSE IF d.matched THEN DecreaseOutcome(DecreaseRecord(d))
    ELSE FailedOutcome

\* parse_recurrence without its effects
ParseResult(text) ==
    FirstMatch(MatchComplex(text), MatchSimple(text), MatchDecrease(text))

(***************************************************************************)
(* Numbers                                                                 *)
(*                                                                         *)
(* A power is a Python int (the defaults 0 and 1) or the float that        *)
(* float(text) makes of a short decimal literal: [kind, ip, fd] is the     *)
(* number ip.fd, fd its fractional digits without trailing zeros. A log    *)
(* ratio np.log(a) / np.log(b) is kept as the pair [a, b]: for the         *)
(* coefficients a >= 1 and divisors b >= 2 of the inputs below it is the   *)
(* real number log_b(a), and it differs from a short decimal by far more   *)
(* than the rounding of a double or the 1e-10 tolerance unless the two     *)
(* are equal, so comparisons are made exactly, in integers.                *)
(***************************************************************************)

IntNum(k) == [kind |-> "int", ip |-> k, fd |-> ""]

RECURSIVE StripTrailingZeros(_)
StripTrailingZeros(d) ==
    IF Len(d) > 0 /\ At(d, Len(d)) = "0"
    THEN StripTrailingZeros(SubSeq(d, 1, Len(d) - 1))
    ELSE d

\* float(g) for a text g that `\d*\.?\d*` matched and that holds a digit
ParseFloat(g) ==
    LET Parts(e) ==
            [kind |-> "float", ip |-> ParseInt(SubSeq(g, 1, e - 1)),
             fd |-> StripTrailingZeros(SubSeq(g, e + 1, Len(g)))]
    IN  Parts(SkipDigits(g, 1))

RECURSIVE Pow(_, _)
Pow(x, n) == IF n = 0 THEN 1 ELSE x * Pow(x, n - 1)

RECURSIVE Gcd(_, _)
Gcd(x, y) == IF y = 0 THEN x ELSE Gcd(y, x % y)

\* the number p as a fraction num/den in lowest terms
Fraction(p) ==
    LET Lowest(n, d, g) == [num |-> n \div g, den |-> d \div g]
        Over(n, d) == Lowest(n, d, Gcd(d, n))
        Scaled(d) == Over(p.ip * d + ParseInt(p.fd), d)
    IN  Scaled(Pow(10, Len(p.fd)))

\* np.log(a) / np.log(b)
LogRatio(a, b) == [kind |-> "logratio", a |-> a, b |-> b]

\* r > p, r == p and r >= p for a log ratio r and a power p:
\* log_b(a) > num/den  iff  a^den > b^num
RatioGreater(r, p) ==
    LET Greater(q) == Pow(r.a, q.den) > Pow(r.b, q.num) IN Greater(Fraction(p))

RatioEqual(r, p) ==
    LET Equal(q) == Pow(r.a, q.den) = Pow(r.b, q.num) IN Equal(Fraction(p))

\* x < y for two ratios of one list, which share the numerator np.log(total_a)
RatioLess(x, y) == x.a > 1 /\ x.b > y.b

\* max(ratios): the first element no later one exceeds
RECURSIVE MaxRatio(_)
MaxRatio(ratios) ==
    LET Larger(m, x) == IF RatioLess(m, x) THEN x ELSE m
    IN  IF Len(ratios) = 1 THEN ratios[1]
        ELSE Larger(MaxRatio(SubSeq(ratios, 1, Len(ratios) - 1)), ratios[Len(ratios)])

\* repr of the double np.log(a) / np.log(b), a in 1..10 (row), b in 2..6 (column)
RatioText ==
    <<<<"0.0", "0.0", "0.0", "0.0", "0.0">>,
      <<"1.0", "0.6309297535714574", "0.5", "0.43067655807339306", "0.3868528072345416">>,
      <<"1.5849625007211563", "1.0", "0.7924812503605781", "0.6826061944859854", "0.6131471927654585">>,
      <<"2.0", "1.2618595071429148", "1.0", "0.8613531161467861", "0.7737056144690831">>,
      <<"2.321928094887362", "1.4649735207179269", "1.160964047443681", "1.0", "0.8982444017039272">>,
      <<"2.584962500721156", "1.6309297535714573", "1.292481250360578", "1.1132827525593785", "1.0">>,
      <<"2.807354922057604", "1.7712437491614221", "1.403677461028802", "1.2090619551221675", "1.0860331325016919">>,
      <<"3.0", "1.892789260714372", "1.5", "1.2920296742201791", "1.1605584217036247">>,
      <<"3.1699250014423126", "2.0", "1.5849625007211563", "1.3652123889719707", "1.226294385530917">>,
      <<"3.3219280948873626", "2.095903274289385", "1.6609640474436813", "1.4306765580733933", "1.285097208938469">>>>

\* str(x), as an f-string renders a power or a ratio
NumStr(x) ==
    CASE x.kind = "int" -> IntStr(x.ip)
      [] x.kind = "float" -> IntStr(x.ip) \o "." \o (IF x.fd = "" THEN "0" ELSE x.fd)
      [] x.kind = "logratio" -> RatioText[x.a][x.b - 1]

\* str(list) of a list of ratios, without the brackets
RECURSIVE RatioListBody(_)
RatioListBody(ratios) ==
    IF Len(ratios) = 0 THEN ""
    ELSE IF Len(ratios) = 1 THEN NumStr(ratios[1])
    ELSE NumStr(ratios[1]) \o ", " \o RatioListBody(Tail(ratios))

(***************************************************************************)
(* parse_fn_growth                                                         *)
(***************************************************************************)

\* index of the first occurrence of lit in s from i on, 0 if there is none
RECURSIVE IndexOf(_, _, _)
IndexOf(s, lit, i) ==
    IF i + Len(lit) - 1 > Len(s) THEN 0
    ELSE IF StartsWithAt(s, i, lit) THEN i
    ELSE IndexOf(s, lit, i + 1)

\* `\^?(?:\*\*)?\s*(\d*\.?\d*)` at i: the group's text and the index after it.
\* Every part may match nothing, so the greedy attempt always stands.
PowerTailAt(s, i) ==
    LET Group(j, e) == [g |-> SubSeq(s, j, e - 1), end |-> e]
        Dot(j, e) == Group(j, SkipDigits(s, IF At(s, e) = "." THEN e + 1 ELSE e))
        Number(j) == Dot(j, SkipDigits(s, j))
        Stars(j) == Number(SkipSpaces(s, IF StartsWithAt(s, j, "**") THEN j + 2 ELSE j))
    IN  Stars(IF At(s, i) = "^" THEN i + 1 ELSE i)

\* re.search(power_pattern, f).group(1): the pattern matches at the first "n"
\* (None if f holds no "n")
PowerGroup(f) ==
    LET From(i) == IF i = 0 THEN None ELSE Str(PowerTailAt(f, i + 1).g)
    IN  From(IndexOf(f, "n", 1))

\* re.search(notation_pattern, f) from index i on: the group's text, None if
\* the pattern matches nowhere. A group followed by anything but ")" cannot
\* match shorter, so each start index is tried once.
RECURSIVE NotationGroup(_, _)
NotationGroup(f, i) ==
    LET Closed(t) ==
            IF At(f, i) \in {"o", "O", "θ", "Θ"} /\ StartsWithAt(f, i + 1, "(n")
               /\ At(f, t.end) = ")"
            THEN Str(t.g)
            ELSE NotationGroup(f, i + 1)
    IN  IF i > Len(f) THEN None ELSE Closed(PowerTailAt(f, i + 3))

\* float(g) raises ValueError on a text without a digit; of the texts the
\* patterns capture that is "."
FloatRaises(g) == \A i \in 1..Len(g) : At(g, i) \notin Digits

Growth(category, power) == [raised |-> FALSE, category |-> category, power |-> power]

ValueError == [raised |-> TRUE, exception |-> "ValueError"]

\* float(text) of a captured group, as the category's result
PowerOf(category, text) ==
    IF FloatRaises(text) THEN ValueError ELSE Growth(category, ParseFloat(text))

\* parse_fn_growth after `f_n = f_n.strip().lower()`: g is the group of the
\* power pattern and n that of the notation pattern (None where it does not match)
Classify(f, g, n) ==
    IF f = "1" \/ f = "o(1)" \/ f = "θ(1)" \/ Contains(f, "constant")
    THEN Growth("constant", IntNum(0))
    ELSE IF Contains(f, "log") \/ Contains(f, "ln")
    THEN IF Contains(f, "n^") \/ Contains(f, "n**")
         THEN IF g # None /\ g.str # ""
              THEN PowerOf("n_log", g.str)
              ELSE Growth("n_log", IntNum(1))
         ELSE Growth("logarithmic", IntNum(0))
    ELSE IF Contains(f, "n") /\ g # None /\ g.str # ""
    THEN PowerOf("polynomial", g.str)
    ELSE IF Contains(f, "n") /\ ~Contains(f, "n^") /\ ~Contains(f, "n**")
            /\ ~Contains(f, "n *") /\ ~Contains(f, "n*")
    THEN Growth("polynomial", IntNum(1))
    ELSE IF n # None
    THEN IF n.str # "" THEN PowerOf("polynomial", n.str)
         ELSE Growth("polynomial", IntNum(1))
    ELSE Growth("unknown", None)

\* parse_fn_growth(f_n): the pair (category, power), or the exception raised
ParseFnGrowth(f_n) ==
    LET Searched(f) == Classify(f, PowerGroup(f), NotationGroup(f, 1))
    IN  Searched(Lower(Strip(f_n)))

(***************************************************************************)
(* format_solution and the complex path of solve, without their effects    *)
(***************************************************************************)

\* the chain of str.replace calls of format_solution
FormatText(raw) ==
    Replace(Replace(Replace(Replace(Replace(raw, "Theta", "Θ"), "theta", "Θ"),
                            "O(", "O("), "n^2", "n²"), "n^3", "n³")

\* the two steps format_solution appends
FormatSteps(raw) ==
    <<"Formatting solution: " \o raw, "Formatted solution: " \o FormatText(raw)>>

\* sum(sub['a'] for sub in subproblems)
RECURSIVE TotalA(_)
TotalA(subproblems) ==
    IF Len(subproblems) = 0 THEN 0
    ELSE subproblems[1].a + TotalA(Tail(subproblems))

\* min(sub['b'] for sub in subproblems)
MinB(subproblems) ==
    CHOOSE b \in {subproblems[i].b : i \in 1..Len(subproblems)} :
        \A j \in 1..Len(subproblems) : b <= subproblems[j].b

\* [np.log(total_a) / np.log(sub['b']) for sub in subproblems]
Ratios(subproblems) ==
    [i \in 1..Len(subproblems) |-> LogRatio(TotalA(subproblems), subproblems[i].b)]

\* a decision table that lacks the branch for equal exponents: a power equal
\* to the ratio is treated like a smaller one
ComplexSolutionWithoutLogCase(category, power, max_ratio) ==
    IF category \in {"polynomial", "n_log"}
    THEN IF RatioGreater(max_ratio, power) \/ RatioEqual(max_ratio, power)
         THEN "Θ(n^" \o NumStr(max_ratio) \o ")"
         ELSE "Θ(n^" \o NumStr(power) \o ")"
    ELSE "Cannot determine asymptotic behavior for complex recurrence"

\* the decision table of the complex path: the raw solution string
ComplexSolution(category, power, max_ratio) ==
    CASE category = "polynomial" ->
           IF RatioEqual(max_ratio, power)
           THEN "Θ(n^" \o NumStr(power) \o " log n)"
           ELSE IF RatioGreater(max_ratio, power)
           THEN "Θ(n^" \o NumStr(max_ratio) \o ")"
           ELSE "Θ(n^" \o NumStr(power) \o ")"
      [] category = "logarithmic" ->
           IF RatioGreater(max_ratio, IntNum(0))
           THEN "Θ(n^" \o NumStr(max_ratio) \o ")"
           ELSE "Θ(log n)"
      [] category = "constant" ->
           IF RatioGreater(max_ratio, IntNum(0))
           THEN "Θ(n^" \o NumStr(max_ratio) \o ")"
           ELSE "Θ(1)"
      [] category = "n_log" ->
           IF RatioGreater(max_ratio, power) \/ RatioEqual(max_ratio, power)
           THEN "Θ(n^" \o NumStr(max_ratio) \o ")"
           ELSE "Θ(n^" \o NumStr(power) \o " log n)"
      [] OTHER -> "Cannot determine asymptotic behavior for complex recurrence"

\* the steps of the complex path before parse_fn_growth is called
ComplexStepsBefore(subproblems) ==
    <<"Complex divide and conquer recurrence detected with multiple subproblems.",
      "Using iterative expansion to analyze the solution.",
      "Total coefficient sum: " \o IntStr(TotalA(subproblems)),
      "Minimum divisor: " \o IntStr(MinB(subproblems))>>

\* the steps of the complex path after it
ComplexStepsAfter(subproblems) ==
    <<"Log ratios for subproblems: [" \o RatioListBody(Ratios(subproblems)) \o "]",
      "Maximum log ratio: " \o NumStr(MaxRatio(Ratios(subproblems)))>>

\* the methods the class defines; solve calls three more that it does not
ClassMethods ==
    {"__init__", "parse_recurrence", "add_base_case", "parse_fn_growth",
     "format_solution", "solve", "display_steps", "plot_growth"}

\* the solve_using_* method the standard path calls first
FirstMethodCalled(method, type) ==
    IF method = Str("master") /\ type = "divide_and_conquer"
    THEN "solve_using_master_theorem"
    ELSE IF method = Str("substitution") THEN "solve_using_substitution"
    ELSE IF method = Str("iteration") THEN "solve_using_iteration"
    ELSE IF type = "divide_and_conquer" THEN "solve_using_master_theorem"
    ELSE "solve_using_iteration"

(***************************************************************************)
(* The session: one action per public method. history is the list of the   *)
(* calls made so far, each with its argument and how it ended.             *)
(***************************************************************************)

Returned(op, arg, ret) == [op |-> op, arg |-> arg, outcome |-> "return", ret |-> ret]

Raised(op, arg, exception) ==
    [op |-> op, arg |-> arg, outcome |-> "raise", ret |-> [exception |-> exception]]

\* __init__
Init ==
    /\ recurrence = None
    /\ base_cases = <<>>
    /\ solution = None
    /\ solution_method = None
    /\ execution_time = 0
    /\ steps = <<>>
    /\ asymptotic_notation = None
    /\ history = <<>>

\* parse_recurrence(text)
ParseRecurrence(text) ==
    LET Parsed(r) ==
            /\ steps' = steps \o <<"Parsing recurrence relation: " \o text, r.step>>
            /\ recurrence' = IF r.rec = None THEN recurrence ELSE r.rec
            /\ history' = Append(history, Returned("parse_recurrence", Str(text), r.rec))
            /\ UNCHANGED <<base_cases, solution, solution_method, execution_time,
                           asymptotic_notation>>
    IN  Parsed(ParseResult(text))

\* an add_base_case that also discards the solution held
AddBaseCaseDiscarding(n, value) ==
    /\ base_cases' = [k \in DOMAIN base_cases \cup {n} |->
                         IF k = n THEN value ELSE base_cases[k]]
    /\ steps' = Append(steps, "Added base case: T(" \o IntStr(n) \o ") = " \o NumStr(value))
    /\ solution' = None
    /\ history' = Append(history,
                         Returned("add_base_case", [n |-> n, value |-> value], None))
    /\ UNCHANGED <<recurrence, solution_method, execution_time, asymptotic_notation>>

\* add_base_case(n, value)
AddBaseCase(n, value) ==
    /\ base_cases' = [k \in DOMAIN base_cases \cup {n} |->
                         IF k = n THEN value ELSE base_cases[k]]
    /\ steps' = Append(steps, "Added base case: T(" \o IntStr(n) \o ") = " \o NumStr(value))
    /\ history' = Append(history,
                         Returned("add_base_case", [n |-> n, value |-> value], None))
    /\ UNCHANGED <<recurrence, solution, solution_method, execution_time,
                   asymptotic_notation>>

\* format_solution(raw)
FormatSolution(raw) ==
    /\ steps' = steps \o FormatSteps(raw)
    /\ asymptotic_notation' = Str(raw)
    /\ history' = Append(history, Returned("format_solution", Str(raw), Str(FormatText(raw))))
    /\ UNCHANGED <<recurrence, base_cases, solution, solution_method, execution_time>>

\* a solve that, holding no recurrence, returns None without a step
SolveNothingSilently(method) ==
    /\ history' = Append(history, Returned("solve", method, None))
    /\ UNCHANGED <<recurrence, base_cases, solution, solution_method, execution_time,
                   steps, asymptotic_notation>>

\* solve(method) when no recurrence is held
SolveNothing(method) ==
    /\ steps' = Append(steps, "No recurrence relation has been parsed yet.")
    /\ history' = Append(history, Returned("solve", method, None))
    /\ UNCHANGED <<recurrence, base_cases, solution, solution_method, execution_time,
                   asymptotic_notation>>

\* solve(method) on a complex record: it returns from inside the branch, before
\* the statement that sets execution_time
SolveComplex(method) ==
    LET subproblems == recurrence.subproblems
        Formatted(raw, formatted) ==
            /\ steps' = steps \o ComplexStepsBefore(subproblems)
                              \o ComplexStepsAfter(subproblems) \o FormatSteps(raw)
            /\ asymptotic_notation' = Str(raw)
            /\ solution' = Str(formatted)
            /\ history' = Append(history, Returned("solve", method, Str(formatted)))
        Decided(raw) == Formatted(raw, FormatText(raw))
        Classified(growth) ==
            IF growth.raised
            THEN /\ steps' = steps \o ComplexStepsBefore(subproblems)
                 /\ history' = Append(history, Raised("solve", method, growth.exception))
                 /\ UNCHANGED <<solution, asymptotic_notation>>
            ELSE Decided(ComplexSolution(growth.category, growth.power,
                                         MaxRatio(Ratios(subproblems))))
    IN  /\ solution_method' = Str("Iterative Expansion")
        /\ Classified(ParseFnGrowth(recurrence.fn))
        /\ UNCHANGED <<recurrence, base_cases, execution_time>>

\* solve(method) on any other record: the method looked up on self does not
\* exist, so the call ends in AttributeError before anything is written
SolveStandard(method) ==
    /\ FirstMethodCalled(method, recurrence.type) \notin ClassMethods
    /\ history' = Append(history, Raised("solve", method, "AttributeError"))
    /\ UNCHANGED <<recurrence, base_cases, solution, solution_method, execution_time,
                   steps, asymptotic_notation>>

\* solve(method)
Solve(method) ==
    IF recurrence = None THEN SolveNothing(method)
    ELSE IF recurrence.type = "complex_divide_and_conquer" THEN SolveComplex(method)
    ELSE SolveStandard(method)

(***************************************************************************)
(* Inputs. Every coefficient is >= 1 and every divisor >= 2, as the        *)
(* grammar of the inputs expects; sums of coefficients stay within the     *)
(* rows of RatioText.                                                      *)
(***************************************************************************)

\* calls made on one session
MaxCalls == 3

\* the texts parse_recurrence is given in Spec
Texts ==
    {"T(n) = 2T(n/2) + n",
     "T(n) = T(n/2) + T(n/6) + n*log(n)",
     "T(n) = T(n-1) + 1",
     "T(n) = T(n/2) + n^.",
     "T(n) = 4T(n/2) + n^2",
     "T(n) = T(n/2)",
     "banana",
     "T(n) = n",
     " T(n) = 2T(n/2) + n",
     "T(n) = T(n-1)"}

\* the method hints: None, the three solve honours, and one it does not know
Methods ==
    {None, Str("master"), Str("substitution"), Str("iteration"), Str("characteristic")}

\* the base cases add_base_case is given
BaseSizes == {0, 1}

BaseValues == {IntNum(1), ParseFloat("2.5")}

\* the strings format_solution is given when called on its own
RawSolutions == {"Theta(n^2)", "O(n^3 log n)"}

\* a session of at most MaxCalls calls, in any order
Next ==
    \/ \E text \in Texts : Len(history) < MaxCalls /\ ParseRecurrence(text)
    \/ \E n \in BaseSizes, value \in BaseValues :
           Len(history) < MaxCalls /\ AddBaseCase(n, value)
    \/ \E raw \in RawSolutions : Len(history) < MaxCalls /\ FormatSolution(raw)
    \/ \E method \in Methods : Len(history) < MaxCalls /\ Solve(method)

Spec == Init /\ [][Next]_vars

(***************************************************************************)
(* A second family of inputs: the texts of the divide-and-conquer grammar, *)
(* built from their parts, each parsed on a fresh session that then goes   *)
(* on with the other calls.                                                *)
(***************************************************************************)

\* calls made on one session of SpecGrammar
MaxGrammarCalls == 2

Heads == {"T(n) = ", "T(n)="}

Coefficients == {"", "2", "3", "4", "8", "9"}

Divisors == {"2", "3", "4"}

\* the terms [a]T(n/b)
Terms == {c \o "T(n/" \o d \o ")" : c \in Coefficients, d \in Divisors}

\* terms whose coefficients stay small when two of them are added up
SmallTerms == {c \o "T(n/" \o d \o ")" : c \in {"", "2", "3"}, d \in {"2", "3", "6"}}

\* the driving functions: powers of n, with and without a logarithm, a
\* constant, an exponent that is only ".", a blank and an unknown letter
Functions ==
    {"n", "n^2", "n^3", "n^0", "n^0.5", "n^1.5", "n^2.0", "1", "log n", "n^2 log n",
     "n^.", " ", "x"}

GrammarTexts ==
    {h \o t \o " + " \o f : h \in Heads, t \in Terms, f \in Functions}
    \cup {h \o t : h \in Heads, t \in Terms}
    \cup {"T(n) = " \o t \o " + " \o u \o " + " \o f :
              t \in SmallTerms, u \in SmallTerms, f \in {"n", "n^2"}}
    \cup {"T(n) = " \o t \o " + " \o u : t \in SmallTerms, u \in SmallTerms}

NextGrammar ==
    \/ \E text \in GrammarTexts : Len(history) = 0 /\ ParseRecurrence(text)
    \/ \E n \in BaseSizes, value \in BaseValues :
           Len(history) \in 1..(MaxGrammarCalls - 1) /\ AddBaseCase(n, value)
    \/ \E raw \in RawSolutions :
           Len(history) \in 1..(MaxGrammarCalls - 1) /\ FormatSolution(raw)
    \/ \E method \in Methods :
           Len(history) \in 1..(MaxGrammarCalls - 1) /\ Solve(method)

SpecGrammar == Init /\ [][NextGrammar]_vars

(***************************************************************************)
(* Properties                                                              *)
(***************************************************************************)

\* the call made last
Last == history[Len(history)]

IsPrefix(s, t) == Len(s) <= Len(t) /\ SubSeq(t, 1, Len(s)) = s

\* the session consists of parse_recurrence(text) followed by solve(method)
ParsedThenSolved(text, method) ==
    /\ Len(history) = 2
    /\ history[1].op = "parse_recurrence" /\ history[1].arg = Str(text)
    /\ history[2].op = "solve" /\ history[2].arg = method

\* the last call is a solve on a record of the given type
SolvedOn(type) ==
    /\ Len(history) > 0 /\ Last.op = "solve"
    /\ recurrence # None /\ recurrence.type = type

\* no parse_recurrence call of the session has returned a record
NoParseSucceeded ==
    \A i \in 1..Len(history) : history[i].op = "parse_recurrence" => history[i].ret = None

\* the text matches none of the three patterns
NoPatternMatches(text) ==
    /\ ~MatchComplex(text).matched
    /\ ~MatchSimple(text).matched
    /\ ~MatchDecrease(text).matched

\* C1: on a fresh session, parse_recurrence("T(n) = 2T(n/2) + n") followed by
\* solve() with no method hint returns the solution string "Θ(n log n)".
C1_ReturnsThetaNLogN ==
    ParsedThenSolved("T(n) = 2T(n/2) + n", None)
        => Last.outcome = "return" /\ Last.ret = Str("Θ(n log n)")

\* C1, what the session holds instead: the exponent is written out
C1_ReturnsExponentOne ==
    /\ ParsedThenSolved("T(n) = 2T(n/2) + n", None)
    /\ Last.ret = Str("Θ(n^1 log n)")

\* C2: on a fresh session, parse_recurrence("T(n) = T(n/2) + T(n/6) + n*log(n)")
\* yields a complex record with subproblems (1, 2) then (1, 6); solve() classifies
\* f as n_log with power 1 and returns "Θ(n^1)".
C2_ClassifiedNLog ==
    ParsedThenSolved("T(n) = T(n/2) + T(n/6) + n*log(n)", None)
        => /\ history[1].ret # None
           /\ history[1].ret.type = "complex_divide_and_conquer"
           /\ history[1].ret.subproblems = <<[a |-> 1, b |-> 2], [a |-> 1, b |-> 6]>>
           /\ ParseFnGrowth(recurrence.fn) = Growth("n_log", IntNum(1))
           /\ Last.outcome = "return" /\ Last.ret = Str("Θ(n^1)")

\* C2, what the session holds instead: the record is as stated, f is classified
\* logarithmic with power 0 and the ratio is printed as a float
C2_ClassifiedLogarithmic ==
    /\ ParsedThenSolved("T(n) = T(n/2) + T(n/6) + n*log(n)", None)
    /\ history[1].ret.subproblems = <<[a |-> 1, b |-> 2], [a |-> 1, b |-> 6]>>
    /\ ParseFnGrowth(recurrence.fn) = Growth("logarithmic", IntNum(0))
    /\ Last.ret = Str("Θ(n^1.0)")

\* C3: solve on a decrease-and-conquer record, with the hint 'iteration' or with
\* none, completes and returns a non-empty solution string.
C3_DecreaseIsSolved ==
    (SolvedOn("decrease_and_conquer") /\ Last.arg \in {None, Str("iteration")})
        => Last.outcome = "return" /\ Last.ret # None /\ Last.ret # Str("")

\* C3, what happens instead: parse_recurrence("T(n) = T(n-1) + 1") then
\* solve('iteration') ends in AttributeError
C3_DecreaseRaises ==
    /\ ParsedThenSolved("T(n) = T(n-1) + 1", Str("iteration"))
    /\ SolvedOn("decrease_and_conquer")
    /\ Last.outcome = "raise" /\ Last.ret = [exception |-> "AttributeError"]

\* C4: for every text and method hint, after any earlier calls, parse_recurrence
\* and solve never raise.
C4_NeverRaises ==
    \A i \in 1..Len(history) : history[i].outcome = "return"

\* C4, what happens instead: an exponent that is only "." makes solve end in
\* ValueError, after the steps that precede the classification of f
C4_MalformedExponentRaises ==
    /\ ParsedThenSolved("T(n) = T(n/2) + n^.", None)
    /\ Last.outcome = "raise" /\ Last.ret = [exception |-> "ValueError"]
    /\ steps[Len(steps)] = "Minimum divisor: 2"

\* C5: when no parse_recurrence call has succeeded so far, solve with any hint
\* returns None, appends exactly the one step saying that nothing has been
\* parsed, and leaves recurrence, solution, solution method, execution time,
\* asymptotic notation and base cases as they were.
C5_SolveWithoutRecurrence ==
    [][(/\ NoParseSucceeded
        /\ Len(history') = Len(history) + 1
        /\ history'[Len(history')].op = "solve")
       => (/\ history'[Len(history')].outcome = "return"
           /\ history'[Len(history')].ret = None
           /\ steps' = Append(steps, "No recurrence relation has been parsed yet.")
           /\ UNCHANGED <<recurrence, solution, solution_method, execution_time,
                          asymptotic_notation, base_cases>>)]_vars

\* C5's case: solve('master') after a failed parse and an add_base_case
C5_SolvedAfterFailedParse ==
    /\ Len(history) = 3 /\ NoParseSucceeded
    /\ history[1].op = "parse_recurrence"
    /\ history[2].op = "add_base_case"
    /\ Last.op = "solve" /\ Last.arg = Str("master") /\ Last.ret = None
    /\ steps[Len(steps)] = "No recurrence relation has been parsed yet."

\* C6: in any session state, parse_recurrence of a text that matches none of the
\* three patterns returns None and leaves the failure step as the last step; for
\* a text that matches one of them the last step is not the failure step.
C6_FailureStepIffNoMatch ==
    (Len(history) > 0 /\ Last.op = "parse_recurrence")
        => /\ NoPatternMatches(Last.arg.str)
                => /\ Last.ret = None
                   /\ steps[Len(steps)] = "Failed to parse the recurrence relation."
           /\ ~NoPatternMatches(Last.arg.str)
                => steps[Len(steps)] # "Failed to parse the recurrence relation."

\* C6's case: "banana" is parsed on a session that already holds a recurrence
C6_BananaOnUsedSession ==
    /\ Len(history) = 3 /\ recurrence # None
    /\ history[2].op = "solve"
    /\ Last.op = "parse_recurrence" /\ Last.arg = Str("banana") /\ Last.ret = None
    /\ steps[Len(steps)] = "Failed to parse the recurrence relation."

\* the last call is a solve that returned on a complex record with the single
\* subproblem (a, b) and an f classified polynomial
SolvedSinglePolynomial ==
    /\ SolvedOn("complex_divide_and_conquer") /\ Last.outcome = "return"
    /\ Len(recurrence.subproblems) = 1
    /\ ParseFnGrowth(recurrence.fn).category = "polynomial"

\* p compared with e = log_b(a): -1 if p < e, 0 if p = e, 1 if p > e, decided
\* in integers as a^den against b^num for p = num/den
CompareToCritical(p, a, b) ==
    IF Pow(a, Fraction(p).den) > Pow(b, Fraction(p).num) THEN -1
    ELSE IF Pow(a, Fraction(p).den) = Pow(b, Fraction(p).num) THEN 0
    ELSE 1

\* C7: on the complex path with a single subproblem (a, b), b >= 2, and f
\* classified polynomial with exponent p, where e = log_b(a), the raw solution is
\* Θ(n^e) if p < e, Θ(n^e log n) (written with p, which equals e) if p = e, and
\* Θ(n^p) if p > e: exactly one of the three for every (a, b, p).
C7_MasterTheoremCases ==
    SolvedSinglePolynomial
        => LET a == recurrence.subproblems[1].a
               b == recurrence.subproblems[1].b
               p == ParseFnGrowth(recurrence.fn).power
               c == CompareToCritical(p, a, b)
           IN  /\ b >= 2
               /\ c = -1 => asymptotic_notation
                                = Str("Θ(n^" \o NumStr(LogRatio(a, b)) \o ")")
               /\ c = 0 => asymptotic_notation = Str("Θ(n^" \o NumStr(p) \o " log n)")
               /\ c = 1 => asymptotic_notation = Str("Θ(n^" \o NumStr(p) \o ")")

\* C7's case: 9T(n/3) + n^2.0, where the exponent equals log_3(9)
C7_EqualExponents ==
    /\ SolvedSinglePolynomial
    /\ recurrence.subproblems = <<[a |-> 9, b |-> 3]>>
    /\ recurrence.fn = "n^2.0"
    /\ asymptotic_notation = Str("Θ(n^2.0 log n)")

\* the parse_recurrence calls of the session whose text matches the simple pattern
SimpleParses ==
    {i \in 1..Len(history) :
        history[i].op = "parse_recurrence" /\ MatchSimple(history[i].arg.str).matched}

\* C8 as stated: every text that matches the simple pattern is parsed as a
\* complex record with exactly one subproblem (a, b), a = 1 when omitted, and
\* the same trimmed f.
C8_ExactlyOneSubproblem ==
    \A i \in SimpleParses :
        LET m == MatchSimple(history[i].arg.str)
        IN  /\ history[i].ret # None
            /\ history[i].ret.type = "complex_divide_and_conquer"
            /\ history[i].ret.subproblems
                   = <<[a |-> CoefficientOf(m.g1), b |-> ParseInt(m.g2)]>>
            /\ history[i].ret.fn = Strip(m.g3)

\* C8, amended: every text that matches the simple pattern matches the complex
\* one and is parsed as a complex record whose first subproblem is (a, b), a = 1
\* when omitted; it has exactly that one subproblem and the same trimmed f when
\* the simple pattern's f is not blank and does not begin with a further term
\* [a]T(n/b). parse_recurrence never returns a record of type divide_and_conquer,
\* and a solve on a complex record sets the method "Iterative Expansion" whatever
\* the hint.
C8_ComplexTakesPrecedence ==
    /\ \A i \in SimpleParses :
           LET m == MatchSimple(history[i].arg.str)
           IN  /\ MatchComplex(history[i].arg.str).matched
               /\ history[i].ret # None
               /\ history[i].ret.type = "complex_divide_and_conquer"
               /\ history[i].ret.subproblems[1]
                      = [a |-> CoefficientOf(m.g1), b |-> ParseInt(m.g2)]
               /\ (Strip(m.g3) # "" /\ ~TTermAt(m.g3, 1).ok)
                      => /\ Len(history[i].ret.subproblems) = 1
                         /\ history[i].ret.fn = Strip(m.g3)
    /\ \A i \in 1..Len(history) :
           (history[i].op = "parse_recurrence" /\ history[i].ret # None)
               => history[i].ret.type # "divide_and_conquer"
    /\ SolvedOn("complex_divide_and_conquer")
           => solution_method = Str("Iterative Expansion")

\* C8's case: a text with two terms matches the simple pattern, is parsed with
\* two subproblems, and solve('master') takes the complex path
C8_SecondTermInF ==
    /\ ParsedThenSolved("T(n) = 2T(n/2) + 3T(n/3) + n", Str("master"))
    /\ 1 \in SimpleParses
    /\ MatchSimple("T(n) = 2T(n/2) + 3T(n/3) + n").g3 = "3T(n/3) + n"
    /\ recurrence.subproblems = <<[a |-> 2, b |-> 2], [a |-> 3, b |-> 3]>>
    /\ recurrence.fn = "n"
    /\ solution_method = Str("Iterative Expansion")

\* C9: the steps before a call are a prefix of the steps after it, and every
\* call appends at least one step.
C9_EveryCallAppends ==
    [][IsPrefix(steps, steps') /\ Len(steps') > Len(steps)]_vars

\* C9, what happens instead: a solve on a decrease-and-conquer record ends in
\* AttributeError with the steps as the parse left them
C9_SolveLeftNoStep ==
    /\ ParsedThenSolved("T(n) = T(n-1) + 1", None)
    /\ Last.outcome = "raise"
    /\ steps = <<"Parsing recurrence relation: T(n) = T(n-1) + 1",
                 "Identified decrease and conquer recurrence with d=1, f(n)=1">>

\* C10: after a solve that returned a solution, execution_time holds the value
\* written by that solve, not the initial 0.
C10_ExecutionTimeWritten ==
    (Len(history) > 0 /\ Last.op = "solve" /\ Last.outcome = "return" /\ Last.ret # None)
        => execution_time # 0

\* C10, what the session holds instead: the method name is recorded and
\* execution_time is still the 0 of __init__
C10_ExecutionTimeStillZero ==
    /\ ParsedThenSolved("T(n) = 4T(n/2) + n^2", None)
    /\ Last.ret = Str("Θ(n².0 log n)")
    /\ solution_method = Str("Iterative Expansion")
    /\ execution_time = 0

\* the calls of the session other than add_base_case, in order
NotBaseCase(call) == call.op # "add_base_case"

\* a session that is given no base case: its fields and the results of its calls
FreshFields ==
    [recurrence |-> None, solution |-> None, solution_method |-> None,
     asymptotic_notation |-> None, results |-> <<>>]

Ended(f, outcome, ret) ==
    [f EXCEPT !.results = Append(@, [outcome |-> outcome, ret |-> ret])]

\* solve(method) on the fields f of such a session
AfterSolve(f, method) ==
    IF f.recurrence = None THEN Ended(f, "return", None)
    ELSE IF f.recurrence.type # "complex_divide_and_conquer"
    THEN Ended(f, "raise", [exception |-> "AttributeError"])
    ELSE IF ParseFnGrowth(f.recurrence.fn).raised
    THEN Ended([f EXCEPT !.solution_method = Str("Iterative Expansion")],
               "raise", [exception |-> ParseFnGrowth(f.recurrence.fn).exception])
    ELSE LET raw == ComplexSolution(ParseFnGrowth(f.recurrence.fn).category,
                                    ParseFnGrowth(f.recurrence.fn).power,
                                    MaxRatio(Ratios(f.recurrence.subproblems)))
         IN  Ended([f EXCEPT !.solution_method = Str("Iterative Expansion"),
                             !.asymptotic_notation = Str(raw),
                             !.solution = Str(FormatText(raw))],
                   "return", Str(FormatText(raw)))

\* one call on the fields f of such a session
AfterCall(f, call) ==
    CASE call.op = "parse_recurrence" ->
           Ended([f EXCEPT !.recurrence =
                      IF ParseResult(call.arg.str).rec = None THEN @
                      ELSE ParseResult(call.arg.str).rec],
                 "return", ParseResult(call.arg.str).rec)
      [] call.op = "format_solution" ->
           Ended([f EXCEPT !.asymptotic_notation = call.arg],
                 "return", Str(FormatText(call.arg.str)))
      [] call.op = "solve" -> AfterSolve(f, call.arg)

\* the session that is given the calls of `calls`, none an add_base_case
RECURSIVE Replay(_)
Replay(calls) ==
    IF Len(calls) = 0 THEN FreshFields
    ELSE AfterCall(Replay(SubSeq(calls, 1, Len(calls) - 1)), calls[Len(calls)])

\* the fields solve writes and the results of the calls other than
\* add_base_case are those of the session given the same calls and no base case
SameAsWithoutBaseCases ==
    LET others == SelectSeq(history, NotBaseCase)
        f == Replay(others)
    IN  /\ recurrence = f.recurrence
        /\ solution = f.solution
        /\ solution_method = f.solution_method
        /\ asymptotic_notation = f.asymptotic_notation
        /\ f.results = [i \in 1..Len(others) |->
                           [outcome |-> others[i].outcome, ret |-> others[i].ret]]

\* an add_base_case(n, value) step sets base_cases[n] to value, keeps every other
\* key with its value, and leaves the recurrence and the solution fields alone
BaseCaseStepFrame ==
    (Len(history') = Len(history) + 1 /\ history'[Len(history')].op = "add_base_case")
        => /\ DOMAIN base_cases'
                  = DOMAIN base_cases \cup {history'[Len(history')].arg.n}
           /\ \A k \in DOMAIN base_cases' :
                  base_cases'[k] = IF k = history'[Len(history')].arg.n
                                   THEN history'[Len(history')].arg.value
                                   ELSE base_cases[k]
           /\ UNCHANGED <<recurrence, solution, solution_method, asymptotic_notation,
                          execution_time>>

\* C11: base cases never influence solving: every session returns from its
\* parse_recurrence, solve and format_solution calls, and holds in recurrence,
\* solution, method and asymptotic notation, what the session given the same
\* calls without any add_base_case returns and holds, so two sessions that
\* differ only in their add_base_case calls agree; add_base_case itself changes
\* only the base-case mapping (one value per key, the new one for an existing
\* key) and the step log.
C11_BaseCasesDoNotInterfere ==
    [](SameAsWithoutBaseCases) /\ [][BaseCaseStepFrame]_vars

\* C11's case: a base case added between the parse and the solve, and held
\* while solve returns what it returns without it
C11_SolvedWithBaseCase ==
    /\ Len(history) = 3
    /\ history[1].op = "parse_recurrence"
    /\ history[1].arg = Str("T(n) = 4T(n/2) + n^2")
    /\ history[2].op = "add_base_case"
    /\ base_cases = [k \in {1} |-> ParseFloat("2.5")]
    /\ Last.op = "solve" /\ Last.ret = Str("Θ(n².0 log n)")

\* the record returned by the most recent successful parse_recurrence of calls,
\* None if there is none
RECURSIVE LastParsed(_)
LastParsed(calls) ==
    IF Len(calls) = 0 THEN None
    ELSE IF calls[Len(calls)].op = "parse_recurrence" /\ calls[Len(calls)].ret # None
    THEN calls[Len(calls)].ret
    ELSE LastParsed(SubSeq(calls, 1, Len(calls) - 1))

\* the recurrence held is the record of the most recent successful parse: a
\* failed parse, like every other call, leaves it alone
RecurrenceIsLastParsed == recurrence = LastParsed(history)

\* the last call is a solve, the call before it a failed parse, and some parse
\* before that succeeded
SolvedAfterFailedParse ==
    /\ Len(history) >= 3
    /\ Last.op = "solve"
    /\ history[Len(history) - 1].op = "parse_recurrence"
    /\ history[Len(history) - 1].ret = None
    /\ LastParsed(history) # None

\* C12: once a parse has succeeded the session holds a recurrence in every later
\* state, always the record of the most recent successful parse, and a solve
\* issued after a later failed parse solves that recurrence: it returns a
\* solution, not None.
C12_SolvesAfterFailedParse ==
    /\ LastParsed(history) # None => recurrence # None /\ RecurrenceIsLastParsed
    /\ SolvedAfterFailedParse => Last.outcome = "return" /\ Last.ret # None

\* C12, what happens instead: the record of the earlier parse is still held
\* after the failed one, and solve ends in AttributeError on it
C12_KeptButNotSolved ==
    /\ Len(history) = 3
    /\ history[1].arg = Str("T(n) = T(n-1) + 1")
    /\ history[2].arg = Str("banana")
    /\ SolvedAfterFailedParse
    /\ recurrence = history[1].ret
    /\ recurrence.type = "decrease_and_conquer"
    /\ Last.outcome = "raise" /\ Last.ret = [exception |-> "AttributeError"]

====
